---- MODULE Spec2Model ----
(***************************************************************************)
(* Model of tools/bulk_import.py: the CSV driven book import.  One run of  *)
(* main() reads the rows of a CSV file, obtains the OpenLibrary record of  *)
(* each ISBN (pickle cache file or live HTTP lookup), inserts the authors  *)
(* that are not in the in-memory index into the database, and ends with a  *)
(* commit or a rollback.  The cache directory and the database outlive a   *)
(* run, so the model lets several runs follow each other.                  *)
(***************************************************************************)
EXTENDS Integers, Sequences, FiniteSets, TLC

(* ---- bounds of the model ---- *)
MaxRuns == 2        \* runs of main() that follow each other
MaxRows == 2        \* data rows of the CSV file of one run
MaxAuthors == 2     \* length of an OpenLibrary author list

(* ---- input domains ---- *)
ISBNs == {"i1", "i2"}
\* the value of the isbn cell of a data row; "" is a blank cell
IsbnCells == ISBNs \cup {""}
AuthorUrls == {"u1", "u2"}
\* OL['authors'] entries: {'name': ..., 'url': ...}
OLAuthor(u) == [name |-> IF u = "u1" THEN "Justin Cronin" ELSE "Frank Herbert", url |-> u]
OLAuthors == {OLAuthor(u) : u \in AuthorUrls}
\* OL['publishers'] entries: {'name': 'Ace'}
OLPublishers == <<[name |-> "Ace"]>>

EmptyDict == [k \in {} |-> TRUE]

SeqsUpTo(S, n) == UNION {[1..k -> S] : k \in 0..n}

\* the dictionaries search_isbn can return: the empty dictionary, books
\* with an author list and no publisher list, a book with a publisher list
\* and no author list, a book with both, and a book with a title
OLBooks ==
    {EmptyDict, [publishers |-> OLPublishers], [authors |-> <<>>, publishers |-> OLPublishers],
     [title |-> "Dune", authors |-> <<>>]}
    \cup {[authors |-> al] : al \in SeqsUpTo(OLAuthors, MaxAuthors)}

(***************************************************************************)
(* pickle.dump / pickle.load of an OpenLibrary dictionary.  dump writes a  *)
(* stream of opcodes, load runs them on a stack machine.                   *)
(***************************************************************************)
Op(o) == [op |-> o]
SaveStr(s) == <<[op |-> "BINUNICODE", arg |-> s]>>

RECURSIVE Flatten(_)
Flatten(ss) == IF ss = <<>> THEN <<>> ELSE Head(ss) \o Flatten(Tail(ss))

\* Pickler._batch_setitems: nothing for no item, SETITEM for one item,
\* MARK ... SETITEMS for more
BatchSetitems(items) ==
    IF Len(items) = 0 THEN <<>>
    ELSE IF Len(items) = 1 THEN items[1] \o <<Op("SETITEM")>>
    ELSE <<Op("MARK")>> \o Flatten(items) \o <<Op("SETITEMS")>>

\* Pickler._batch_appends
BatchAppends(items) ==
    IF Len(items) = 0 THEN <<>>
    ELSE IF Len(items) = 1 THEN items[1] \o <<Op("APPEND")>>
    ELSE <<Op("MARK")>> \o Flatten(items) \o <<Op("APPENDS")>>

\* the keys of d in the order the dictionary holds them
KeysInOrder(d, order) == SelectSeq(order, LAMBDA k : k \in DOMAIN d)

\* a dictionary whose values are strings ({'name': .., 'url': ..})
SaveStrDict(d) ==
    LET ks == KeysInOrder(d, <<"name", "url">>)
    IN  <<Op("EMPTY_DICT")>> \o
        BatchSetitems([i \in 1..Len(ks) |-> SaveStr(ks[i]) \o SaveStr(d[ks[i]])])

SaveDictList(l) ==
    <<Op("EMPTY_LIST")>> \o BatchAppends([i \in 1..Len(l) |-> SaveStrDict(l[i])])

\* the title is a string, the author and publisher lists are lists of
\* dictionaries
SaveBookValue(k, v) == IF k = "title" THEN SaveStr(v) ELSE SaveDictList(v)

pickle_dump(ol_book) ==
    LET ks == KeysInOrder(ol_book, <<"title", "authors", "publishers">>)
    IN  <<Op("PROTO"), Op("EMPTY_DICT")>> \o
        BatchSetitems([i \in 1..Len(ks) |->
                          SaveStr(ks[i]) \o SaveBookValue(ks[i], ol_book[ks[i]])])
        \o <<Op("STOP")>>

\* the stack of the unpickler holds the mark object and values
MarkObj == [t |-> "mark"]
Val(v) == [t |-> "val", v |-> v]

RECURSIVE TopMark(_, _)
TopMark(stack, i) == IF i = 0 \/ stack[i].t = "mark" THEN i ELSE TopMark(stack, i - 1)

RECURSIVE SetItems(_, _, _)
SetItems(d, items, i) ==
    IF i > Len(items) THEN d
    ELSE SetItems((items[i].v :> items[i + 1].v) @@ d, items, i + 2)

Values(items) == [i \in 1..Len(items) |-> items[i].v]

RECURSIVE Unpickle(_, _, _)
Unpickle(ops, i, stack) ==
    LET o == ops[i]
        n == Len(stack)
        m == TopMark(stack, n)
    IN  IF o.op = "STOP" THEN stack[n].v
        ELSE IF o.op = "PROTO" THEN Unpickle(ops, i + 1, stack)
        ELSE IF o.op = "EMPTY_DICT" THEN Unpickle(ops, i + 1, Append(stack, Val(EmptyDict)))
        ELSE IF o.op = "EMPTY_LIST" THEN Unpickle(ops, i + 1, Append(stack, Val(<<>>)))
        ELSE IF o.op = "MARK" THEN Unpickle(ops, i + 1, Append(stack, MarkObj))
        ELSE IF o.op = "BINUNICODE" THEN Unpickle(ops, i + 1, Append(stack, Val(o.arg)))
        ELSE IF o.op = "SETITEM" THEN
            Unpickle(ops, i + 1,
                     Append(SubSeq(stack, 1, n - 3),
                            Val((stack[n - 1].v :> stack[n].v) @@ stack[n - 2].v)))
        ELSE IF o.op = "SETITEMS" THEN
            Unpickle(ops, i + 1,
                     Append(SubSeq(stack, 1, m - 2),
                            Val(SetItems(stack[m - 1].v, SubSeq(stack, m + 1, n), 1))))
        ELSE IF o.op = "APPEND" THEN
            Unpickle(ops, i + 1,
                     Append(SubSeq(stack, 1, n - 2), Val(Append(stack[n - 1].v, stack[n].v))))
        ELSE \* APPENDS
            Unpickle(ops, i + 1,
                     Append(SubSeq(stack, 1, m - 2),
                            Val(stack[m - 1].v \o Values(SubSeq(stack, m + 1, n)))))

pickle_load(blob) == Unpickle(blob, 1, <<>>)

(***************************************************************************)
(* search_isbn: one HTTP GET against OpenLibrary.                          *)
(***************************************************************************)
\* what the network can answer to the GET for isbn: no answer at all
\* (connection refused, timeout), an HTTP error status, a body that is not
\* JSON, or a JSON object, given as the sequence of its <<key, value>> items
Responses(isbn) ==
    {[kind |-> "transport"], [kind |-> "status", status |-> 404],
     [kind |-> "status", status |-> 500], [kind |-> "notjson"]}
    \cup {[kind |-> "json", items |-> <<>>]}
    \cup {[kind |-> "json", items |-> << <<isbn, b>> >>] : b \in OLBooks}

Raised(exc) == [raised |-> exc]
Returned(v) == [raised |-> "", value |-> v]

search_isbn(resp) ==
    IF resp.kind = "transport" THEN Raised("ConnectionError")        \* requests.get
    ELSE IF resp.kind = "status" /\ resp.status >= 400 THEN Raised("HTTPError")  \* raise_for_status
    ELSE IF resp.kind = "notjson" THEN Raised("JSONDecodeError")     \* resp.json()
    ELSE IF Len(resp.items) = 0 THEN Raised("IndexError")            \* list(...)[0]
    ELSE Returned(resp.items[1][2])


(***************************************************************************)
(* The header row: headers = [x.strip().lower() for x in row].  A cell is  *)
(* the sequence of its characters.                                         *)
(***************************************************************************)
CellISBN == <<"I", "S", "B", "N">>
CellPaddedIsbn == <<" ", "I", "s", "b", "n", " ">>
CellIsbn13 == <<"I", "S", "B", "N", "1", "3">>
CellTitle == <<"T", "i", "t", "l", "e">>
\* the header rows a CSV file can start with
HeaderRows ==
    {<<CellTitle, CellISBN>>, <<CellTitle, CellPaddedIsbn>>, <<CellTitle, CellIsbn13>>,
     <<CellTitle>>}

RECURSIVE LStrip(_)
LStrip(x) == IF x # <<>> /\ Head(x) = " " THEN LStrip(Tail(x)) ELSE x
RECURSIVE RStrip(_)
RStrip(x) == IF x # <<>> /\ x[Len(x)] = " " THEN RStrip(SubSeq(x, 1, Len(x) - 1)) ELSE x
Strip(x) == RStrip(LStrip(x))

LowerChar(c) ==
    CASE c = "I" -> "i" [] c = "S" -> "s" [] c = "B" -> "b" [] c = "N" -> "n"
      [] c = "T" -> "t" [] OTHER -> c
Lower(x) == [k \in 1..Len(x) |-> LowerChar(x[k])]

NormalizeHeaders(cells) == [k \in 1..Len(cells) |-> Lower(Strip(cells[k]))]
\* 'isbn' in headers
HasIsbn(hs) == \E k \in 1..Len(hs) : hs[k] = <<"i", "s", "b", "n">>

(***************************************************************************)
(* State                                                                   *)
(***************************************************************************)
VARIABLES
    cache,          \* files of the cache directory: isbn -> pickled bytes
    db_authors,     \* committed rows of table authors
    db_publishers,  \* committed rows of table publishers
    author_id_seq,  \* last value of the SERIAL sequence of authors.author_id
    run,            \* number of runs of main() started so far
    args,           \* argparse namespace of the current run
    pc,             \* where main() stands
    raised,         \* the exception that ended the run, "" for none
    finish,         \* how the run ended its transaction: none, commit, rollback
    session,        \* rows flushed in the open transaction, not yet committed
    existing_data,  \* the index built by index_db_data
    headers,        \* the normalized cells of the header row
    total_count,
    success_count,
    csv_book,       \* the row being processed
    ol_book,        \* the OpenLibrary data of the row being processed
    author_idx,     \* position of populate_author's for loop
    start,          \* database and cache as the current run found them
    row,            \* what the run did for the current data row
    ref_rows,       \* author url -> the data rows of this run that list it
    created_row,    \* author url -> the data row that inserted it, 0 for none
    puts,           \* <<isbn, record>> written to the cache by this run
    earlier_puts    \* <<isbn, record>> written to the cache by earlier runs

vars == <<cache, db_authors, db_publishers, author_id_seq, run, args, pc, raised, finish,
          session, existing_data, headers, total_count, success_count, csv_book, ol_book,
          author_idx, start, row, ref_rows, created_row, puts, earlier_puts>>

persistent == <<cache, db_authors, db_publishers, author_id_seq>>
counters == <<total_count, success_count>>
observed == <<start, ref_rows, created_row, puts, earlier_puts>>

\* schema_to_dict of a row of table authors
AuthorRow(id, a) == [author_id |-> id, author |-> a.name, url |-> a.url]
PublisherRow(id, name, url) == [publisher_id |-> id, publisher |-> name, url |-> url]

\* the data rows a CSV file can hold: dict(zip(headers, row)) has an isbn
\* entry, unless the line is shorter than the header (a blank line)
CsvRows == {[isbn |-> c] : c \in IsbnCells} \cup {EmptyDict}

\* nothing done yet for the row: no cache file read, no request sent,
\* no cache file written, no author inserted
NewRow == [src |-> "", resp |-> "", cache_write |-> FALSE, created |-> <<>>]

NoRefs == [u \in AuthorUrls |-> {}]
NoneCreated == [u \in AuthorUrls |-> 0]

Init ==
    /\ cache = EmptyDict
    /\ db_authors = {}
    /\ db_publishers \in {{}, {PublisherRow(1, "Ace", "p1")}}
    /\ author_id_seq = 0
    /\ run = 0
    /\ args = [commit |-> FALSE, disable_cache |-> FALSE]
    /\ pc = "exited"
    /\ raised = ""
    /\ finish = "none"
    /\ session = {}
    /\ existing_data = [authors |-> EmptyDict, publishers |-> EmptyDict]
    /\ headers = <<>>
    /\ total_count = 0
    /\ success_count = 0
    /\ csv_book = EmptyDict
    /\ ol_book = EmptyDict
    /\ author_idx = 0
    /\ start = [db_authors |-> {}, cache |-> EmptyDict]
    /\ row = NewRow
    /\ ref_rows = NoRefs
    /\ created_row = NoneCreated
    /\ puts = {}
    /\ earlier_puts = {}

(***************************************************************************)
(* main()                                                                  *)
(***************************************************************************)
\* An exception nobody catches ends the process.  The transaction was not
\* committed: the server discards it when the connection goes away.
Uncaught(exc) ==
    /\ pc' = "exited"
    /\ raised' = exc
    /\ session' = {}

\* the command line is parsed and the session opened
Launch ==
    /\ pc = "exited"
    /\ run < MaxRuns
    /\ run' = run + 1
    /\ \E c \in BOOLEAN, d \in BOOLEAN : args' = [commit |-> c, disable_cache |-> d]
    /\ pc' = "index"
    /\ raised' = ""
    /\ finish' = "none"
    /\ session' = {}
    /\ existing_data' = [authors |-> EmptyDict, publishers |-> EmptyDict]
    /\ headers' = <<>>
    /\ total_count' = 0
    /\ success_count' = 0
    /\ csv_book' = EmptyDict
    /\ ol_book' = EmptyDict
    /\ author_idx' = 0
    /\ start' = [db_authors |-> db_authors, cache |-> cache]
    /\ row' = NewRow
    /\ ref_rows' = NoRefs
    /\ created_row' = NoneCreated
    /\ puts' = {}
    /\ earlier_puts' = earlier_puts \cup puts
    /\ UNCHANGED persistent

\* existing_data['authors'][author.url] = schema_to_dict(author)
IndexAuthors(rows) ==
    [u \in {r.url : r \in rows} |-> CHOOSE r \in rows : r.url = u]

\* The loop over the publishers binds "author" and reads "publisher", a name
\* that is not defined: NameError on the first stored publisher.
index_db_data ==
    /\ pc = "index"
    /\ IF db_publishers = {}
       THEN /\ existing_data' = [authors |-> IndexAuthors(db_authors), publishers |-> EmptyDict]
            /\ pc' = "header"
            /\ UNCHANGED <<raised, session>>
       ELSE /\ Uncaught("NameError")
            /\ UNCHANGED existing_data
    /\ UNCHANGED <<persistent, run, args, finish, counters, csv_book, ol_book, author_idx,
                   row, observed>>
    /\ UNCHANGED headers

\* ReadHeader without the test for the isbn column
ReadHeaderUnchecked ==
    /\ pc = "header"
    /\ \E cells \in HeaderRows : headers' = NormalizeHeaders(cells)
    /\ pc' = "rows"
    /\ UNCHANGED <<raised, session>>
    /\ UNCHANGED <<persistent, run, args, finish, existing_data, counters, csv_book, ol_book,
                   author_idx, row, observed>>

\* count == 0: the header row
ReadHeader ==
    /\ pc = "header"
    /\ \E cells \in HeaderRows :
          /\ headers' = NormalizeHeaders(cells)
          /\ IF HasIsbn(headers')
             THEN pc' = "rows" /\ UNCHANGED <<raised, session>>
             ELSE Uncaught("SystemExit")
    /\ UNCHANGED <<persistent, run, args, finish, existing_data, counters, csv_book, ol_book,
                   author_idx, row, observed>>

\* ReadRow without the test for a blank ISBN
ReadRowFetchingBlanks ==
    /\ pc = "rows"
    /\ total_count < MaxRows
    /\ \E r \in CsvRows :
          /\ csv_book' = r
          /\ total_count' = total_count + 1
          /\ row' = NewRow
          /\ IF "isbn" \notin DOMAIN r
             THEN Uncaught("KeyError")
             ELSE /\ pc' = "fetch"
                  /\ UNCHANGED <<raised, session>>
    /\ UNCHANGED <<persistent, run, args, finish, existing_data, success_count, ol_book,
                   author_idx, observed>>
    /\ UNCHANGED headers

\* a data row is read; a blank ISBN is skipped
ReadRow ==
    /\ pc = "rows"
    /\ total_count < MaxRows
    /\ \E r \in CsvRows :
          /\ csv_book' = r
          /\ total_count' = total_count + 1
          /\ row' = NewRow
          /\ IF "isbn" \notin DOMAIN r
             THEN Uncaught("KeyError")
             ELSE /\ pc' = IF r.isbn = "" THEN "rows" ELSE "fetch"
                  /\ UNCHANGED <<raised, session>>
    /\ UNCHANGED <<persistent, run, args, finish, existing_data, success_count, ol_book,
                   author_idx, observed>>
    /\ UNCHANGED headers

\* the data rows that list each author of book, with row n added
Referenced(book, n) ==
    IF "authors" \in DOMAIN book
    THEN [u \in AuthorUrls |->
            IF \E k \in 1..Len(book.authors) : book.authors[k].url = u
            THEN ref_rows[u] \cup {n} ELSE ref_rows[u]]
    ELSE ref_rows

\* main() after fetch_book_details returned (book, error): an empty book
\* skips the row, any other goes to process_book
AfterFetch(book) ==
    /\ ol_book' = book
    /\ IF book = EmptyDict
       THEN pc' = "rows" /\ author_idx' = 0 /\ UNCHANGED ref_rows
       ELSE pc' = "authors" /\ author_idx' = 1 /\ ref_rows' = Referenced(book, total_count)

\* FetchFromCache without the test of disable_cache
FetchFromCacheIgnoringFlag ==
    /\ pc = "fetch"
    /\ csv_book.isbn \in DOMAIN cache
    /\ AfterFetch(pickle_load(cache[csv_book.isbn]))
    /\ row' = [row EXCEPT !.src = "cache"]
    /\ UNCHANGED <<persistent, run, args, raised, finish, session, existing_data, counters,
                   csv_book, start, created_row, puts, earlier_puts>>
    /\ UNCHANGED headers

\* fetch_book_details: the cache file exists and the cache is in use
FetchFromCache ==
    /\ pc = "fetch"
    /\ ~args.disable_cache
    /\ csv_book.isbn \in DOMAIN cache
    /\ AfterFetch(pickle_load(cache[csv_book.isbn]))
    /\ row' = [row EXCEPT !.src = "cache"]
    /\ UNCHANGED <<persistent, run, args, raised, finish, session, existing_data, counters,
                   csv_book, start, created_row, puts, earlier_puts>>
    /\ UNCHANGED headers

\* FetchFromApi reached also when the cache file exists and the cache is in use
FetchFromApiAlways ==
    /\ pc = "fetch"
    /\ \E resp \in Responses(csv_book.isbn) :
          LET res == search_isbn(resp)
          IN  IF res.raised = "HTTPError"
              THEN /\ AfterFetch(EmptyDict)
                   /\ row' = [row EXCEPT !.src = "api", !.resp = res.raised]
                   /\ UNCHANGED <<cache, puts, raised, session>>
              ELSE IF res.raised # ""
              THEN /\ Uncaught(res.raised)
                   /\ row' = [row EXCEPT !.src = "api", !.resp = res.raised]
                   /\ UNCHANGED <<cache, puts, ol_book, author_idx, ref_rows>>
              ELSE /\ cache' = (csv_book.isbn :> pickle_dump(res.value)) @@ cache
                   /\ puts' = puts \cup {<<csv_book.isbn, res.value>>}
                   /\ AfterFetch(res.value)
                   /\ row' = [row EXCEPT !.src = "api", !.resp = "ok", !.cache_write = TRUE]
                   /\ UNCHANGED <<raised, session>>
    /\ UNCHANGED <<db_authors, db_publishers, author_id_seq, run, args, finish,
                   existing_data, counters, csv_book, start, created_row, earlier_puts>>
    /\ UNCHANGED headers

\* FetchFromApi without the write of the cache file
FetchFromApiWithoutWrite ==
    /\ pc = "fetch"
    /\ args.disable_cache \/ csv_book.isbn \notin DOMAIN cache
    /\ \E resp \in Responses(csv_book.isbn) :
          LET res == search_isbn(resp)
          IN  IF res.raised = "HTTPError"
              THEN /\ AfterFetch(EmptyDict)
                   /\ row' = [row EXCEPT !.src = "api", !.resp = res.raised]
                   /\ UNCHANGED <<cache, puts, raised, session>>
              ELSE IF res.raised # ""
              THEN /\ Uncaught(res.raised)
                   /\ row' = [row EXCEPT !.src = "api", !.resp = res.raised]
                   /\ UNCHANGED <<cache, puts, ol_book, author_idx, ref_rows>>
              ELSE /\ cache' = cache
                   /\ puts' = puts \cup {<<csv_book.isbn, res.value>>}
                   /\ AfterFetch(res.value)
                   /\ row' = [row EXCEPT !.src = "api", !.resp = "ok", !.cache_write = TRUE]
                   /\ UNCHANGED <<raised, session>>
    /\ UNCHANGED <<db_authors, db_publishers, author_id_seq, run, args, finish,
                   existing_data, counters, csv_book, start, created_row, earlier_puts>>
    /\ UNCHANGED headers

\* fetch_book_details: no cache file, or [-d]: ask OpenLibrary
FetchFromApi ==
    /\ pc = "fetch"
    /\ args.disable_cache \/ csv_book.isbn \notin DOMAIN cache
    /\ \E resp \in Responses(csv_book.isbn) :
          LET res == search_isbn(resp)
          IN  IF res.raised = "HTTPError"
              THEN /\ AfterFetch(EmptyDict)
                   /\ row' = [row EXCEPT !.src = "api", !.resp = res.raised]
                   /\ UNCHANGED <<cache, puts, raised, session>>
              ELSE IF res.raised # ""
              THEN /\ Uncaught(res.raised)
                   /\ row' = [row EXCEPT !.src = "api", !.resp = res.raised]
                   /\ UNCHANGED <<cache, puts, ol_book, author_idx, ref_rows>>
              ELSE /\ cache' = (csv_book.isbn :> pickle_dump(res.value)) @@ cache
                   /\ puts' = puts \cup {<<csv_book.isbn, res.value>>}
                   /\ AfterFetch(res.value)
                   /\ row' = [row EXCEPT !.src = "api", !.resp = "ok", !.cache_write = TRUE]
                   /\ UNCHANGED <<raised, session>>
    /\ UNCHANGED <<db_authors, db_publishers, author_id_seq, run, args, finish,
                   existing_data, counters, csv_book, start, created_row, earlier_puts>>
    /\ UNCHANGED headers

\* process_book returned: main() counts the row
RowDone ==
    /\ pc' = "rows"
    /\ success_count' = success_count + 1
    /\ author_idx' = 0
    /\ UNCHANGED ol_book

\* populate_author: for author in ol_book['authors'] without that key
PopulateAuthorNoList ==
    /\ pc = "authors"
    /\ "authors" \notin DOMAIN ol_book
    /\ Uncaught("KeyError")
    /\ UNCHANGED <<persistent, run, args, finish, existing_data, counters, csv_book, ol_book,
                   author_idx, row, observed>>
    /\ UNCHANGED headers

\* populate_author: the author is in the index: return its entry
PopulateAuthorExisting ==
    /\ pc = "authors"
    /\ "authors" \in DOMAIN ol_book
    /\ author_idx <= Len(ol_book.authors)
    /\ ol_book.authors[author_idx].url \in DOMAIN existing_data.authors
    /\ RowDone
    /\ UNCHANGED <<persistent, run, args, raised, finish, session, existing_data, total_count,
                   csv_book, row, observed>>
    /\ UNCHANGED headers

\* PopulateAuthorCreate without the update of the index
CreateWithoutIndexing ==
    /\ pc = "authors"
    /\ "authors" \in DOMAIN ol_book
    /\ author_idx <= Len(ol_book.authors)
    /\ LET author == ol_book.authors[author_idx]
           new_author == AuthorRow(author_id_seq + 1, author)
       IN  /\ author.url \notin DOMAIN existing_data.authors
           /\ \E flushed \in BOOLEAN :
                 IF flushed
                 THEN /\ session' = session \cup {new_author}
                      /\ author_id_seq' = author_id_seq + 1
                      /\ author_idx' = author_idx + 1
                      /\ row' = [row EXCEPT !.created = Append(@, author.url)]
                      /\ created_row' = [created_row EXCEPT ![author.url] = total_count]
                      /\ UNCHANGED <<pc, raised, existing_data>>
                 ELSE /\ Uncaught("StorageError")
                      /\ UNCHANGED <<author_id_seq, existing_data, author_idx, row, created_row>>
    /\ UNCHANGED <<cache, db_authors, db_publishers, run, args, finish, counters, csv_book,
                   ol_book, start, ref_rows, puts, earlier_puts>>
    /\ UNCHANGED headers

\* PopulateAuthorCreate with the failure of session.flush caught and the
\* import carried on
CreateSwallowingErrors ==
    /\ pc = "authors"
    /\ "authors" \in DOMAIN ol_book
    /\ author_idx <= Len(ol_book.authors)
    /\ LET author == ol_book.authors[author_idx]
           new_author == AuthorRow(author_id_seq + 1, author)
       IN  /\ author.url \notin DOMAIN existing_data.authors
           /\ \E flushed \in BOOLEAN :
                 IF flushed
                 THEN /\ session' = session \cup {new_author}
                      /\ author_id_seq' = author_id_seq + 1
                      /\ existing_data' = [existing_data EXCEPT
                             !.authors = (new_author.url :> new_author) @@ @]
                      /\ author_idx' = author_idx + 1
                      /\ row' = [row EXCEPT !.created = Append(@, author.url)]
                      /\ created_row' = [created_row EXCEPT ![author.url] = total_count]
                      /\ UNCHANGED <<pc, raised>>
                 ELSE /\ raised' = "StorageError"
                      /\ author_idx' = author_idx + 1
                      /\ UNCHANGED <<pc, session, author_id_seq, existing_data, row,
                                     created_row>>
    /\ UNCHANGED <<cache, db_authors, db_publishers, run, args, finish, counters, csv_book,
                   ol_book, start, ref_rows, puts, earlier_puts>>
    /\ UNCHANGED headers

\* populate_author: the author is new: session.add, session.flush, index it
PopulateAuthorCreate ==
    /\ pc = "authors"
    /\ "authors" \in DOMAIN ol_book
    /\ author_idx <= Len(ol_book.authors)
    /\ LET author == ol_book.authors[author_idx]
           new_author == AuthorRow(author_id_seq + 1, author)
       IN  /\ author.url \notin DOMAIN existing_data.authors
           /\ \E flushed \in BOOLEAN :
                 IF flushed
                 THEN /\ session' = session \cup {new_author}
                      /\ author_id_seq' = author_id_seq + 1
                      /\ existing_data' = [existing_data EXCEPT
                             !.authors = (new_author.url :> new_author) @@ @]
                      /\ author_idx' = author_idx + 1
                      /\ row' = [row EXCEPT !.created = Append(@, author.url)]
                      /\ created_row' = [created_row EXCEPT ![author.url] = total_count]
                      /\ UNCHANGED <<pc, raised>>
                 ELSE /\ Uncaught("StorageError")
                      /\ UNCHANGED <<author_id_seq, existing_data, author_idx, row, created_row>>
    /\ UNCHANGED <<cache, db_authors, db_publishers, run, args, finish, counters, csv_book,
                   ol_book, start, ref_rows, puts, earlier_puts>>
    /\ UNCHANGED headers

\* populate_author: the for loop is exhausted
PopulateAuthorEnd ==
    /\ pc = "authors"
    /\ "authors" \in DOMAIN ol_book
    /\ author_idx > Len(ol_book.authors)
    /\ RowDone
    /\ UNCHANGED <<persistent, run, args, raised, finish, session, existing_data, total_count,
                   csv_book, row, observed>>
    /\ UNCHANGED headers

\* Finish committing whenever every row succeeded, flag or no flag
FinishCommitsOnSuccess ==
    /\ pc \in {"header", "rows"}
    /\ IF args.commit \/ success_count = total_count
       THEN /\ db_authors' = db_authors \cup session
            /\ finish' = "commit"
       ELSE /\ UNCHANGED db_authors
            /\ finish' = "rollback"
    /\ session' = {}
    /\ pc' = "exited"
    /\ UNCHANGED <<cache, db_publishers, author_id_seq, run, args, raised, existing_data,
                   counters, csv_book, ol_book, author_idx, row, observed>>
    /\ UNCHANGED headers

\* the CSV file has no further row: commit or roll back, close the session
Finish ==
    /\ pc \in {"header", "rows"}
    /\ IF args.commit
       THEN /\ db_authors' = db_authors \cup session
            /\ finish' = "commit"
       ELSE /\ UNCHANGED db_authors
            /\ finish' = "rollback"
    /\ session' = {}
    /\ pc' = "exited"
    /\ UNCHANGED <<cache, db_publishers, author_id_seq, run, args, raised, existing_data,
                   counters, csv_book, ol_book, author_idx, row, observed>>
    /\ UNCHANGED headers

Next ==
    \/ Launch
    \/ index_db_data
    \/ ReadHeader
    \/ ReadRow
    \/ FetchFromCache
    \/ FetchFromApi
    \/ PopulateAuthorNoList
    \/ PopulateAuthorExisting
    \/ PopulateAuthorCreate
    \/ PopulateAuthorEnd
    \/ Finish

Spec == Init /\ [][Next]_vars

(***************************************************************************)
(* What the properties speak of                                            *)
(***************************************************************************)
Urls(rows) == {r.url : r \in rows}
Inserted(u) == {r \in session : r.url = u}
\* the exit status of the process: SystemExit(1) and a traceback give 1
ExitStatus == IF raised = "" THEN 0 ELSE 1
\* the process of the current run is gone
Exited == run >= 1 /\ pc = "exited"
\* the transaction of the current run was ended by a rollback: main called
\* session.rollback(), or the run died with the transaction uncommitted
RolledBack == Exited /\ finish # "commit" /\ session = {}
\* ol_book is the record fetch_book_details returned for the current row
Obtained == row.src = "cache" \/ row.resp = "ok"
\* the first of a set of data rows
Min(S) == CHOOSE n \in S : \A k \in S : n <= k
\* the step of main() that reads a data row whose ISBN is blank
BlankRowRead ==
    /\ pc = "rows" /\ total_count' # total_count
    /\ "isbn" \in DOMAIN csv_book' /\ csv_book'.isbn = ""

(***************************************************************************)
(* C1: a run without the commit flag never commits: at every point of the  *)
(* run the durable authors are those the run found, and when the run is    *)
(* over its transaction has been rolled back (by main when the input was   *)
(* read to its end).                                                       *)
(***************************************************************************)
C1_NoCommitFlagRollsBack ==
    (run >= 1 /\ ~args.commit) =>
        /\ finish # "commit"
        /\ db_authors = start.db_authors
        /\ (Exited => RolledBack)
        /\ (Exited /\ raised = "" => finish = "rollback")

\* every row succeeded and authors were inserted, yet the run rolled back
C1_Witness ==
    /\ Exited /\ ~args.commit /\ finish = "rollback"
    /\ total_count = MaxRows /\ success_count = total_count
    /\ \E u \in AuthorUrls : created_row[u] # 0

(***************************************************************************)
(* C2: within one run at most one author row is inserted per URL, however  *)
(* many rows or list positions name the URL, and none for a URL that was   *)
(* stored when the run built its index.                                    *)
(***************************************************************************)
C2_OneInsertPerUrl ==
    \A u \in AuthorUrls :
        /\ Cardinality(Inserted(u)) <= 1
        /\ (u \in Urls(start.db_authors) => Inserted(u) = {})

\* both rows of a run list the same new URL and it was inserted once
C2_Witness ==
    /\ pc = "rows"
    /\ \E u \in AuthorUrls :
          /\ ref_rows[u] = {1, 2}
          /\ u \notin Urls(start.db_authors)
          /\ Cardinality(Inserted(u)) = 1

(***************************************************************************)
(* C3: as claimed, a run with the cache disabled leaves the cache          *)
(* directory as it found it.  fetch_book_details writes the cache file     *)
(* after every successful request, with [-d] too.                          *)
(***************************************************************************)
C3_BypassLeavesCacheAlone ==
    (run >= 1 /\ args.disable_cache) => cache = start.cache

(***************************************************************************)
(* C4: a failure of the database while an author is inserted ends the run: *)
(* no further row is read, nothing is committed even with the commit flag, *)
(* the transaction is rolled back and the durable authors are those the    *)
(* run found, the ones inserted for earlier rows included.                 *)
(***************************************************************************)
C4_StorageErrorRollsBack ==
    raised = "StorageError" =>
        /\ RolledBack
        /\ db_authors = start.db_authors

\* commit flag set, the first row inserted an author, the second row failed
C4_Witness ==
    /\ raised = "StorageError" /\ args.commit
    /\ total_count = 2
    /\ \E u \in AuthorUrls : created_row[u] = 1

(***************************************************************************)
(* C5: as claimed, a row whose request fails, by an HTTP error status or   *)
(* by a transport failure, is skipped without a write and the run goes on. *)
(* Only requests.exceptions.HTTPError is caught.                           *)
(***************************************************************************)
C5_LookupFailureSkipsRow ==
    (row.src = "api" /\ row.resp \in {"HTTPError", "ConnectionError"}) =>
        /\ raised = ""
        /\ row.created = <<>> /\ ~row.cache_write
        /\ pc \in {"rows", "fetch", "authors"} \/ finish # "none"

(***************************************************************************)
(* C6: as claimed, a row whose response is not JSON or is a JSON object    *)
(* without an entry is skipped and the run goes on.  resp.json() and       *)
(* list(...)[0] raise and nothing catches them.                            *)
(***************************************************************************)
C6_MalformedResponseSkipsRow ==
    (row.src = "api" /\ row.resp \in {"JSONDecodeError", "IndexError"}) =>
        /\ raised = ""
        /\ pc \in {"rows", "fetch", "authors"} \/ finish # "none"

(***************************************************************************)
(* C7: as claimed, a record written to the cache for an ISBN by an earlier *)
(* run is the record a later run with the cache enabled obtains for that   *)
(* ISBN, from the cache file and without a request.                        *)
(***************************************************************************)
C7_CachedRecordServedLater ==
    (run >= 1 /\ ~args.disable_cache /\ row.src # "") =>
        \A p \in earlier_puts :
            p[1] = csv_book.isbn => (row.src = "cache" /\ ol_book = p[2])

(***************************************************************************)
(* C8: as claimed, when two rows of a run list an author URL that was not  *)
(* stored at the start, the first of them inserts the author, and from     *)
(* then on the index holds the inserted row with its generated id.         *)
(***************************************************************************)
C8_FirstOccurrenceCreates ==
    \A u \in AuthorUrls :
        (pc = "rows" /\ Cardinality(ref_rows[u]) >= 2 /\ u \notin Urls(start.db_authors)) =>
            /\ created_row[u] = Min(ref_rows[u])
            /\ Cardinality(Inserted(u)) = 1
            /\ u \in DOMAIN existing_data.authors
            /\ existing_data.authors[u] \in Inserted(u)

(***************************************************************************)
(* C9: as claimed, a row whose record is not empty and has no author list  *)
(* or no publisher list is processed without failure and inserts nothing   *)
(* for the missing list.  ol_book['authors'] raises KeyError.              *)
(***************************************************************************)
C9_MissingListTolerated ==
    (Obtained /\ ol_book # EmptyDict
       /\ ("authors" \notin DOMAIN ol_book \/ "publishers" \notin DOMAIN ol_book)) =>
        /\ raised \in {"", "StorageError"}
        /\ ("authors" \notin DOMAIN ol_book => row.created = <<>>)

(***************************************************************************)
(* C10: reading a data row with a blank ISBN counts the row in total_count *)
(* and not in success_count, reads and writes neither the cache nor the    *)
(* database, sends no request, and leaves main() ready for the next row.   *)
(***************************************************************************)
C10_BlankIsbnSkipped ==
    [][BlankRowRead =>
          /\ total_count' = total_count + 1
          /\ success_count' = success_count
          /\ row' = NewRow
          /\ cache' = cache /\ puts' = puts
          /\ session' = session /\ db_authors' = db_authors
          /\ author_id_seq' = author_id_seq
          /\ existing_data' = existing_data
          /\ pc' = "rows" /\ raised' = ""]_vars

\* a blank first row was read and skipped, and main() waits for the second row
C10_Witness ==
    /\ total_count = 1 /\ success_count = 0
    /\ csv_book = [isbn |-> ""]
    /\ row = NewRow /\ pc = "rows" /\ raised = ""

\* the record the cache holds for an ISBN
Cached(c, i) == pickle_load(c[i])

\* C11: in a run that uses the cache, no step overwrites, alters or deletes
\* an entry the cache already holds: every ISBN cached before the step is
\* cached with the same record after it.
C11_CacheEntriesKept ==
    [][(run >= 1 /\ pc # "exited" /\ ~args.disable_cache)
          => \A i \in DOMAIN cache :
                i \in DOMAIN cache' /\ cache'[i] = cache[i]
                /\ Cached(cache', i) = Cached(cache, i)]_vars

\* A run that uses the cache found i1 cached, served a row from that entry,
\* wrote the entry of i2, and the entry of i1 is the one it found.
C11_Witness ==
    /\ run >= 1 /\ ~args.disable_cache
    /\ "i1" \in DOMAIN start.cache /\ "i2" \notin DOMAIN start.cache
    /\ total_count = 2 /\ csv_book = [isbn |-> "i2"] /\ row.cache_write
    /\ "i2" \in DOMAIN cache
    /\ cache["i1"] = start.cache["i1"]

\* C12: in a run that bypasses the cache, the cache is never read: every
\* row with a non-empty ISBN is looked up live, also when the cache holds an
\* entry for it, and the record the row uses is the live result.
C12_BypassNeverReadsCache ==
    (run >= 1 /\ args.disable_cache)
       => /\ row.src # "cache"
          /\ (pc = "authors" \/ (total_count >= 1 /\ pc = "rows" /\ row # NewRow))
                => /\ row.src = "api"
                   /\ row.resp = "ok" => <<csv_book.isbn, ol_book>> \in puts

\* A bypass run looked up an ISBN the cache held and uses a live record
\* that differs from the cached one.
C12_Witness ==
    /\ run >= 1 /\ args.disable_cache /\ pc = "authors"
    /\ csv_book.isbn \in DOMAIN start.cache
    /\ row.src = "api" /\ row.resp = "ok"
    /\ ol_book # Cached(start.cache, csv_book.isbn)

\* C13: when the normalized header row has no cell "isbn", the run ends
\* with a non-zero exit status, has processed no data row and has committed
\* nothing.
C13_MissingIsbnColumnAborts ==
    (headers # <<>> /\ ~HasIsbn(headers))
       => /\ Exited /\ raised = "SystemExit" /\ ExitStatus # 0
          /\ total_count = 0 /\ success_count = 0 /\ row = NewRow
          /\ finish = "none" /\ session = {}
          /\ db_authors = start.db_authors

\* A run over a store that holds authors stopped at a header row without
\* the isbn column.
C13_Witness ==
    /\ run >= 1 /\ Exited /\ raised = "SystemExit"
    /\ headers # <<>> /\ ~HasIsbn(headers)
    /\ args.commit /\ db_authors # {}

\* process_book has returned for the current row
RowProcessed == pc = "rows" /\ raised = "" /\ Obtained /\ ol_book # EmptyDict

\* C14: for every processed row whose external record supplies a title,
\* the canonical book produced for that row carries the external record's
\* title.
C14_CanonicalTitleIsExternal ==
    (RowProcessed /\ "title" \in DOMAIN ol_book)
       => \E b \in session : "title" \in DOMAIN b /\ b.title = ol_book.title

\* C15: after populate_author has processed a row, every author URL of the
\* row's author list is a key of the author index, whether or not an
\* earlier author of the list was already indexed.
C15_EveryListedAuthorIndexed ==
    (RowProcessed /\ "authors" \in DOMAIN ol_book)
       => \A k \in 1..Len(ol_book.authors) :
             ol_book.authors[k].url \in DOMAIN existing_data.authors

\* C16: for every initial content of the store, a store holding publishers
\* included, index_db_data completes without error and the index it builds
\* holds exactly the stored authors and the stored publishers, keyed by URL.
C16_IndexBuiltForEveryStore ==
    /\ raised # "NameError"
    /\ (run >= 1 /\ pc = "header")
          => /\ DOMAIN existing_data.authors = Urls(db_authors)
             /\ \A u \in Urls(db_authors) : existing_data.authors[u] \in db_authors
             /\ DOMAIN existing_data.publishers = Urls(db_publishers)
             /\ \A u \in Urls(db_publishers) : existing_data.publishers[u] \in db_publishers

\* a step of a run that uses the cache
CacheInUse == run >= 1 /\ pc # "exited" /\ ~args.disable_cache
\* a live lookup for the current row succeeds in this step
LookupSucceeds == pc = "fetch" /\ row'.src = "api" /\ row'.resp = "ok"
\* a lookup for ISBN i has succeeded in this run or in an earlier one
LookedUp(i) == \E p \in puts \cup earlier_puts : p[1] = i

\* C17: with the cache in use, the cache is written exactly after a
\* successful live fetch: a successful fetch for ISBN i leaves the cache
\* holding the fetched record under i and nothing else changed, a failed
\* fetch leaves the cache unchanged, and a cache hit writes nothing.
C17_CacheWrittenOnLiveSuccess ==
    [][CacheInUse
          => IF LookupSucceeds
             THEN /\ csv_book.isbn \in DOMAIN cache'
                  /\ Cached(cache', csv_book.isbn) = ol_book'
                  /\ <<csv_book.isbn, ol_book'>> \in puts'
                  /\ \A i \in DOMAIN cache' \ {csv_book.isbn} :
                        i \in DOMAIN cache /\ cache'[i] = cache[i]
             ELSE cache' = cache]_vars

\* A run that uses the cache fetched a record with authors for an ISBN the
\* cache did not hold, and the cache now holds that record.
C17_Witness ==
    /\ run >= 1 /\ ~args.disable_cache /\ pc = "authors"
    /\ csv_book.isbn \notin DOMAIN start.cache
    /\ row.resp = "ok" /\ row.cache_write
    /\ "authors" \in DOMAIN ol_book /\ Len(ol_book.authors) = MaxAuthors
    /\ Cached(cache, csv_book.isbn) = ol_book

\* C18: with the cache in use, whatever the cache held at the start and
\* over all rows and successive runs on one cache directory, a live lookup
\* succeeds at most once per ISBN: a live lookup is made only for an ISBN
\* that is not cached and was never looked up with success, and a row whose
\* ISBN was looked up with success before is served from the cache.
C18_OneLiveLookupPerIsbn ==
    [][(CacheInUse /\ pc = "fetch")
          => /\ LookupSucceeds
                  => (~LookedUp(csv_book.isbn) /\ csv_book.isbn \notin DOMAIN cache)
             /\ (LookedUp(csv_book.isbn) \/ csv_book.isbn \in DOMAIN cache)
                  => /\ row'.src = "cache"
                     /\ ol_book' = Cached(cache, csv_book.isbn)
                     /\ puts' = puts]_vars

\* The second run on the cache directory serves from the cache a row whose
\* ISBN an earlier run looked up, after the row before it did the same.
C18_Witness ==
    /\ run = 2 /\ ~args.disable_cache
    /\ total_count = 2 /\ row.src = "cache"
    /\ \E p \in earlier_puts : p[1] = csv_book.isbn /\ p[2] = ol_book
    /\ puts = {}
    /\ success_count >= 1

\* C19: a run that reaches the end of the input finalizes the transaction
\* exactly once, by commit or by rollback as the commit flag alone says, and
\* only after the last row: nothing is committed or rolled back between
\* rows, and every insert of the run precedes the finalization in the one
\* transaction.
C19_FinalizedOnceAtEnd ==
    /\ [](finish # "none" => (pc = "exited" /\ raised = "" /\ session = {}))
    /\ [][/\ finish' # finish
              => \/ pc = "exited" /\ pc' = "index" /\ finish' = "none"
                 \/ /\ finish = "none" /\ pc \in {"header", "rows"} /\ pc' = "exited"
                    /\ finish' = (IF args.commit THEN "commit" ELSE "rollback")
                    /\ db_authors' = (IF args.commit THEN db_authors \cup session
                                                      ELSE db_authors)
          /\ db_authors' # db_authors => (finish = "none" /\ finish' = "commit")
          /\ (pc # "exited" /\ pc' = "exited" /\ raised' = "") => finish' # "none"
          /\ (session' \ session) # {} => (finish = "none" /\ pc = "authors")
          /\ (pc # "exited" /\ pc' # "exited") => session \subseteq session']_vars

\* A run with the commit flag read every row, inserted an author for the
\* first row and another for the last, and has committed both.
C19_Witness ==
    /\ Exited /\ finish = "commit" /\ args.commit
    /\ total_count = MaxRows /\ success_count = MaxRows
    /\ created_row["u1"] = 1 /\ created_row["u2"] = MaxRows
    /\ Urls(db_authors) \ Urls(start.db_authors) = {"u1", "u2"}

\* the author rows the open transaction sees
Visible == start.db_authors \cup session

\* C20: between rows the author index and the open transaction agree: the
\* URL keys of the index are the URLs stored before the run and those
\* inserted during it, each key stands for one stored row, no key is ever
\* removed or pointed at another row, and an entry is added only once its
\* insert is flushed and carries its generated id.
C20_IndexInLockstep ==
    /\ []((run >= 1 /\ pc = "rows")
            => /\ DOMAIN existing_data.authors = Urls(Visible)
               /\ \A u \in DOMAIN existing_data.authors :
                     /\ existing_data.authors[u] \in Visible
                     /\ existing_data.authors[u].url = u
                     /\ existing_data.authors[u].author_id \in 1..author_id_seq
                     /\ Cardinality({r \in Visible : r.url = u}) = 1)
    /\ [][pc \notin {"exited", "index"}
            => /\ \A u \in DOMAIN existing_data.authors :
                     /\ u \in DOMAIN existing_data'.authors
                     /\ existing_data'.authors[u] = existing_data.authors[u]
               /\ \A u \in DOMAIN existing_data'.authors \ DOMAIN existing_data.authors :
                     /\ existing_data'.authors[u] \in session' \ session
                     /\ existing_data'.authors[u].author_id = author_id_seq'
                     /\ author_id_seq' = author_id_seq + 1]_vars

\* Between two rows of a run over a store that held u1, the index holds
\* u1 from the store and u2 from an insert of this run.
C20_Witness ==
    /\ run >= 1 /\ pc = "rows" /\ total_count = 1
    /\ Urls(start.db_authors) = {"u1"} /\ Urls(session) = {"u2"}
    /\ DOMAIN existing_data.authors = {"u1", "u2"}
    /\ existing_data.authors["u2"] \in session

====
